---- MODULE Spec2Model ----
(***************************************************************************)
(* Model of the schema-driven field-name recovery and result-normalization *)
(* engine of home_assistant_identity: src/actor_controller/actor.py and    *)
(* src/ic_identity/home_identity/utils/parsers/subacount_parsers.py; of    *)
(* ConfigManager (src/src/core/config.py) and of IdentityManager           *)
(* (src/ic_identity/home_identity/identity/identity_manager.py).           *)
(*                                                                         *)
(* Text is a sequence of one-character strings.  A 32-bit (or larger)      *)
(* natural number is a pair <<hi, lo>> of value hi * 65536 + lo with       *)
(* lo < 65536, because the model checker's integers are below 2^31.        *)
(***************************************************************************)
EXTENDS Integers, Sequences, FiniteSets, TLC

VARIABLES
    name,          \* SpecHash: the name string hashed so far
    h,             \* SpecHash: _candid_hash(name)
    did_text,      \* SpecBuild: the interface text under construction
    names,         \* SpecBuild: the Name Set harvested from did_text
    mapping,       \* SpecBuild: the hash -> name table built from did_text
    built,         \* SpecBuild: whether _build_field_hash_map has run
    actor,         \* Spec: the ICActor object (NoActor before construction)
    reply,         \* Spec: what the transport and the decoder answered the call
    hydrated,      \* Spec: tree after _rehydrate_hashed_keys
    collapsed,     \* Spec: the same tree after _unwrap_unit_variants_inplace
    call,          \* Spec: the arguments of the call_method dispatch
    sent,          \* Spec: the transport calls the dispatch made, in order
    result,        \* Spec: what call_method returned
    pc,            \* Spec: "new" -> "ready" -> "returned", or "new" -> "failed"
    opt_blob,      \* SpecHex: the value handed to _parse_opt_blob_to_hex
    hex_text,      \* SpecHex: what it returned (NoTree before the call)
    options,       \* SpecConfig: the options file of the ConfigManager
    cached_config, \* SpecConfig: ConfigManager._config
    config_out,    \* SpecConfig: how the last load_config / get_config ended
    canisters,     \* SpecManager: IdentityManager._canisters, name -> id
    actors,        \* SpecManager: IdentityManager._actors, the ids holding an actor
    canisters_file,\* SpecManager: the registry saved in canisters.json
    loadable,      \* SpecManager: whether the interface file can be loaded
    manager_out    \* SpecManager: how the last operation of the manager ended

vars == <<name, h, did_text, names, mapping, built,
          actor, reply, hydrated, collapsed, call, sent, result, pc,
          opt_blob, hex_text, options, cached_config, config_out,
          canisters, actors, canisters_file, loadable, manager_out>>

hashVars  == <<name, h>>
buildVars == <<did_text, names, mapping, built>>
callVars  == <<actor, reply, hydrated, collapsed, call, sent, result, pc>>
hexVars   == <<opt_blob, hex_text>>
configVars == <<options, cached_config, config_out>>
managerVars == <<canisters, actors, canisters_file, loadable, manager_out>>

-----------------------------------------------------------------------------
(* Bounds *)

MaxNameLen == 6      \* SpecHash: longest name hashed
MaxTokens == 3       \* SpecBuild: interface texts are up to this many tokens
MaxDepth == 3        \* Spec: nesting depth of reply trees
MaxWideDepth == 1    \* Spec: two-entry mappings / two-element lists up to this depth
MaxBlobLen == 4      \* SpecHex: longest blob converted

-----------------------------------------------------------------------------
(* Characters and their UTF-8 encoding (str.encode("utf-8")) *)

Lower == <<"a","b","c","d","e","f","g","h","i","j","k","l","m",
           "n","o","p","q","r","s","t","u","v","w","x","y","z">>
Upper == <<"A","B","C","D","E","F","G","H","I","J","K","L","M",
           "N","O","P","Q","R","S","T","U","V","W","X","Y","Z">>
Digits == <<"0","1","2","3","4","5","6","7","8","9">>

Range(seq) == {seq[i] : i \in 1..Len(seq)}

LowerSet == Range(Lower)
UpperSet == Range(Upper)
DigitSet == Range(Digits)
Punct == {" ", "\n", "\t", "{", "}", ":", ";", ",", "\"", "/", "*", "_", "-",
          "(", ")", ">", "."}
NonAscii == {"é"}
Chars == LowerSet \cup UpperSet \cup DigitSet \cup Punct \cup NonAscii

IndexOf(seq, c) == CHOOSE i \in 1..Len(seq) : seq[i] = c

PunctCode(c) ==
    CASE c = " "  -> 32
      [] c = "\n" -> 10
      [] c = "\t" -> 9
      [] c = "{"  -> 123
      [] c = "}"  -> 125
      [] c = ":"  -> 58
      [] c = ";"  -> 59
      [] c = ","  -> 44
      [] c = "\"" -> 34
      [] c = "/"  -> 47
      [] c = "*"  -> 42
      [] c = "_"  -> 95
      [] c = "-"  -> 45
      [] c = "("  -> 40
      [] c = ")"  -> 41
      [] c = ">"  -> 62
      [] c = "."  -> 46

\* the UTF-8 bytes of one character
Utf8 == [c \in Chars |->
    IF c \in LowerSet THEN <<96 + IndexOf(Lower, c)>>
    ELSE IF c \in UpperSet THEN <<64 + IndexOf(Upper, c)>>
    ELSE IF c \in DigitSet THEN <<47 + IndexOf(Digits, c)>>
    ELSE IF c = "é" THEN <<195, 169>>
    ELSE <<PunctCode(c)>>]

RECURSIVE Encode(_)
Encode(str) ==
    IF str = <<>> THEN <<>> ELSE Utf8[Head(str)] \o Encode(Tail(str))

-----------------------------------------------------------------------------
(* ICActor._candid_hash *)

Limb == 65536

\* one iteration of the loop body: h = (h * 223 + b) & 0xFFFFFFFF
HashStep(acc, b) ==
    LET t == acc[2] * 223 + b
    IN  <<(acc[1] * 223 + (t \div Limb)) % Limb, t % Limb>>

RECURSIVE HashBytes(_, _)
HashBytes(acc, bytes) ==
    IF bytes = <<>> THEN acc
    ELSE HashBytes(HashStep(acc, Head(bytes)), Tail(bytes))

\* a plausible slip: the mask keeps 31 bits instead of 32
CandidHashMask31(str) ==
    LET r == HashBytes(<<0, 0>>, Encode(str)) IN <<r[1] % 32768, r[2]>>

CandidHash(str) == HashBytes(<<0, 0>>, Encode(str))

-----------------------------------------------------------------------------
(* Text helpers.  Positions are 0-based as in the source: At(src, k) is
   src[k], Slice(src, a, b) is src[a:b]. *)

At(src, k) == src[k + 1]
Slice(src, a, b) == SubSeq(src, a + 1, b)

StartsWithAt(src, pat, i) ==
    /\ i + Len(pat) <= Len(src)
    /\ Slice(src, i, i + Len(pat)) = pat

\* str.find(pat, i): the least index >= i where pat occurs, else -1
Find(src, pat, i) ==
    LET hits == {j \in i..(Len(src) - Len(pat)) : StartsWithAt(src, pat, j)}
    IN  IF hits = {} THEN -1 ELSE CHOOSE j \in hits : \A x \in hits : j <= x

Contains(src, pat) == Find(src, pat, 0) >= 0

Least(S) == CHOOSE x \in S : \A y \in S : x <= y

\* str.isspace() and the regex class \s, on the characters of the model
IsSpace(c) == c \in {" ", "\n", "\t"}
\* the regex class \w (Unicode aware: letters, digits, underscore)
IsWord(c) == c \in LowerSet \cup UpperSet \cup DigitSet \cup {"_"} \cup NonAscii
\* [A-Za-z_]
IsIdentStart(c) == c \in LowerSet \cup UpperSet \cup {"_"}
\* [\w-]
IsIdentRest(c) == IsWord(c) \/ c = "-"

RECURSIVE SkipSpace(_, _)
SkipSpace(src, k) ==
    IF k < Len(src) /\ IsSpace(At(src, k)) THEN SkipSpace(src, k + 1) ELSE k

RECURSIVE SkipIdent(_, _)
SkipIdent(src, k) ==
    IF k < Len(src) /\ IsIdentRest(At(src, k)) THEN SkipIdent(src, k + 1) ELSE k

\* str.strip()
RECURSIVE Strip(_)
Strip(str) ==
    IF str = <<>> THEN <<>>
    ELSE IF IsSpace(Head(str)) THEN Strip(Tail(str))
    ELSE IF IsSpace(str[Len(str)]) THEN Strip(SubSeq(str, 1, Len(str) - 1))
    ELSE str

\* case folding of re.IGNORECASE, on the characters of the model
ToLower(c) == IF c \in UpperSet THEN Lower[IndexOf(Upper, c)] ELSE c
LowerText(str) == [i \in 1..Len(str) |-> ToLower(str[i])]

RECURSIVE Flatten(_)
Flatten(toks) == IF toks = <<>> THEN <<>> ELSE Head(toks) \o Flatten(Tail(toks))

-----------------------------------------------------------------------------
(* _strip_candid_comments *)

\* re.sub(r"//.*?$", "", src, flags=re.M): from "//" up to, not including,
\* the next newline (or the end of the text)
RECURSIVE StripLineFrom(_, _)
StripLineFrom(src, i) ==
    LET j == Find(src, <<"/", "/">>, i)
        e == Find(src, <<"\n">>, j)
    IN  IF j < 0 THEN Slice(src, i, Len(src))
        ELSE Slice(src, i, j) \o (IF e < 0 THEN <<>> ELSE StripLineFrom(src, e))

\* re.sub(r"/\*.*?\*/", "", src, flags=re.S): from "/*" through the first
\* "*/" that starts at least two characters later; an unterminated "/*" stays
RECURSIVE StripBlockFrom(_, _)
StripBlockFrom(src, i) ==
    LET j == Find(src, <<"/", "*">>, i)
        e == IF j < 0 THEN -1 ELSE Find(src, <<"*", "/">>, j + 2)
    IN  IF e < 0 THEN Slice(src, i, Len(src))
        ELSE Slice(src, i, j) \o StripBlockFrom(src, e + 2)

StripCandidComments(src) == StripBlockFrom(StripLineFrom(src, 0), 0)

-----------------------------------------------------------------------------
(* _iter_balanced_blocks *)

\* the least index >= k holding a brace, or -1
NextBrace(src, k) ==
    LET o == Find(src, <<"{">>, k)
        c == Find(src, <<"}">>, k)
    IN  IF o < 0 THEN c ELSE IF c < 0 THEN o ELSE IF o < c THEN o ELSE c

\* a scan that takes the first "}" it meets, whatever the depth
ScanCloseFirst(src, k, depth) == Find(src, <<"}">>, k)

\* the inner while loop: the index of the "}" met at depth 0, or -1 when the
\* text ends first (the while-else branch)
RECURSIVE ScanClose(_, _, _)
ScanClose(src, k, depth) ==
    LET b == NextBrace(src, k)
    IN  IF b < 0 THEN -1
        ELSE IF At(src, b) = "{" THEN ScanClose(src, b + 1, depth + 1)
        ELSE IF depth = 0 THEN b
        ELSE ScanClose(src, b + 1, depth - 1)

\* an extractor that goes on after a block that is never closed
RECURSIVE IterBlocksSkippingUnclosed(_, _, _)
IterBlocksSkippingUnclosed(src, kw, i) ==
    IF i >= Len(src) THEN <<>>
    ELSE LET j == Find(src, kw, i)
         IN  IF j < 0 THEN <<>>
             ELSE LET k == SkipSpace(src, j + Len(kw))
                  IN  IF k >= Len(src) \/ At(src, k) # "{"
                      THEN IterBlocksSkippingUnclosed(src, kw, j + 1)
                      ELSE LET c == ScanClose(src, k + 1, 0)
                           IN  IF c < 0 THEN IterBlocksSkippingUnclosed(src, kw, j + 1)
                               ELSE <<Slice(src, k + 1, c)>>
                                    \o IterBlocksSkippingUnclosed(src, kw, c + 1)

RECURSIVE IterBlocksFrom(_, _, _)
IterBlocksFrom(src, kw, i) ==
    IF i >= Len(src) THEN <<>>
    ELSE LET j == Find(src, kw, i)
         IN  IF j < 0 THEN <<>>
             ELSE LET k == SkipSpace(src, j + Len(kw))
                  IN  IF k >= Len(src) \/ At(src, k) # "{"
                      THEN IterBlocksFrom(src, kw, j + 1)
                      ELSE LET c == ScanClose(src, k + 1, 0)
                           IN  IF c < 0 THEN <<>>
                               ELSE <<Slice(src, k + 1, c)>>
                                    \o IterBlocksFrom(src, kw, c + 1)

IterBalancedBlocks(src, kw) == IterBlocksFrom(src, kw, 0)

-----------------------------------------------------------------------------
(* ICActor._build_field_hash_map: the Name Harvester *)

NoMatch == [ok |-> FALSE, end |-> 0, nm |-> <<>>]
Quote == <<"\"">>

\* one attempt of  (?:"([^"]+)"|([A-Za-z_][\w-]*))\s*:  at position p
MatchRecordAt(body, p) ==
    LET q  == IF At(body, p) = "\"" THEN Find(body, Quote, p + 1) ELSE -1
        qs == IF q >= p + 2 THEN SkipSpace(body, q + 1) ELSE Len(body)
        e  == SkipIdent(body, p + 1)
        s  == SkipSpace(body, e)
    IN  IF qs < Len(body) /\ At(body, qs) = ":"
        THEN [ok |-> TRUE, end |-> qs + 1, nm |-> Slice(body, p + 1, q)]
        ELSE IF IsIdentStart(At(body, p)) /\ s < Len(body) /\ At(body, s) = ":"
        THEN [ok |-> TRUE, end |-> s + 1, nm |-> Slice(body, p, e)]
        ELSE NoMatch

\* re.finditer over a record body, collecting m.group(1) or m.group(2)
RECURSIVE RecordNamesFrom(_, _)
RecordNamesFrom(body, p) ==
    LET starts == {x \in p..(Len(body) - 1) : MatchRecordAt(body, x).ok}
    IN  IF starts = {} THEN {}
        ELSE LET m == MatchRecordAt(body, Least(starts))
             IN  {m.nm} \cup RecordNamesFrom(body, m.end)

\* the lookahead (?=[:},;])
AltFollow == {":", "}", ",", ";"}

\* one attempt of  "([^"]+)"\s*(?=[:},;])  at position p
MatchQuotedAltAt(body, p) ==
    LET q  == IF At(body, p) = "\"" THEN Find(body, Quote, p + 1) ELSE -1
        qs == IF q >= p + 2 THEN SkipSpace(body, q + 1) ELSE Len(body)
    IN  IF qs < Len(body) /\ At(body, qs) \in AltFollow
        THEN [ok |-> TRUE, end |-> qs, nm |-> Strip(Slice(body, p + 1, q))]
        ELSE NoMatch

RECURSIVE QuotedAltsFrom(_, _)
QuotedAltsFrom(body, p) ==
    LET starts == {x \in p..(Len(body) - 1) : MatchQuotedAltAt(body, x).ok}
    IN  IF starts = {} THEN {}
        ELSE LET m == MatchQuotedAltAt(body, Least(starts))
             IN  (IF m.nm # <<>> THEN {m.nm} ELSE {})
                 \cup QuotedAltsFrom(body, m.end)

reserved ==
    {<<"n","u","l","l">>,
     <<"b","o","o","l">>,
     <<"t","e","x","t">>,
     <<"b","l","o","b">>,
     <<"n","a","t">>,
     <<"n","a","t","8">>,
     <<"n","a","t","1","6">>,
     <<"n","a","t","3","2">>,
     <<"n","a","t","6","4">>,
     <<"i","n","t">>,
     <<"i","n","t","8">>,
     <<"i","n","t","1","6">>,
     <<"i","n","t","3","2">>,
     <<"i","n","t","6","4">>,
     <<"f","l","o","a","t","3","2">>,
     <<"f","l","o","a","t","6","4">>,
     <<"p","r","i","n","c","i","p","a","l">>,
     <<"v","e","c">>,
     <<"o","p","t">>,
     <<"r","e","c","o","r","d">>,
     <<"v","a","r","i","a","n","t">>,
     <<"s","e","r","v","i","c","e">>,
     <<"f","u","n","c">>,
     <<"o","n","e","w","a","y">>}

\* one attempt of  ([A-Za-z_][\w-]*)\s*(?=[:},;])  at position p
MatchBareAltAt(body, p) ==
    LET e == SkipIdent(body, p + 1)
        s == SkipSpace(body, e)
    IN  IF IsIdentStart(At(body, p)) /\ s < Len(body) /\ At(body, s) \in AltFollow
        THEN [ok |-> TRUE, end |-> s, nm |-> Slice(body, p, e)]
        ELSE NoMatch

RECURSIVE BareAltsFrom(_, _)
BareAltsFrom(body, p) ==
    LET starts == {x \in p..(Len(body) - 1) : MatchBareAltAt(body, x).ok}
    IN  IF starts = {} THEN {}
        ELSE LET m == MatchBareAltAt(body, Least(starts))
             IN  (IF m.nm \notin reserved THEN {m.nm} ELSE {})
                 \cup BareAltsFrom(body, m.end)

KwRecord == <<"r","e","c","o","r","d">>
KwVariant == <<"v","a","r","i","a","n","t">>
NameOk == <<"o","k">>
NameErr == <<"e","r","r">>

\* a plausible slip: the record pattern only accepts quoted field names
RecordNamesQuotedOnly(body) ==
    {n \in RecordNamesFrom(body, 0) : Contains(body, Quote \o n \o Quote)}

RecordNames(body) == RecordNamesFrom(body, 0)

VariantNames(body) == QuotedAltsFrom(body, 0) \cup BareAltsFrom(body, 0)

\* the names set of _build_field_hash_map, before hashing
HarvestNames(did) ==
    LET src == StripCandidComments(did)
        rec == IterBalancedBlocks(src, KwRecord)
        var == IterBalancedBlocks(src, KwVariant)
    IN  UNION {RecordNames(rec[i]) : i \in 1..Len(rec)}
        \cup UNION {VariantNames(var[i]) : i \in 1..Len(var)}
        \cup {NameOk, NameErr}

-----------------------------------------------------------------------------
(* ICActor._build_field_hash_map: the table.  The dict comprehension runs
   over a set of strings, whose iteration order varies from one process to
   the next; when several names share a hash the last one iterated stays, so
   the builder yields any table that holds one of them. *)

HashesOf(nms) == {CandidHash(n) : n \in nms}

RECURSIVE TablesOver(_, _)
TablesOver(nms, hs) ==
    IF hs = {} THEN {<<>>}
    ELSE LET hh == CHOOSE x \in hs : TRUE
         IN  {(hh :> n) @@ t : n \in {m \in nms : CandidHash(m) = hh},
                               t \in TablesOver(nms, hs \ {hh})}

\* a plausible slip: the names are lower-cased before they are hashed
FieldHashTablesLowercased(nms) ==
    {[hh \in {CandidHash(LowerText(n)) : n \in nms} |->
         CHOOSE n \in nms : CandidHash(LowerText(n)) = hh]}

FieldHashTables(nms) == TablesOver(nms, HashesOf(nms))

-----------------------------------------------------------------------------
(* Value trees.  Every node is a record of one shape: t is the kind, s a
   text (the string of a leaf, the key of a mapping entry), n the number of
   an integer leaf, kids the elements of a sequence, the entries of a mapping
   in insertion order (each an "ent" node holding its key and, as its one
   kid, its value).  On a mapping or a sequence, n tells whose object it is:
   1 for an object of the reply that the transport or the decoder handed
   over, 0 for an object built during the call. *)

Node(t, s, n, kids) == [t |-> t, s |-> s, n |-> n, kids |-> kids]
Nil == Node("nil", <<>>, 0, <<>>)            \* None, the absence marker
Num(i) == Node("int", <<>>, i, <<>>)
Str(str) == Node("str", str, 0, <<>>)
Prin(str) == Node("prin", str, 0, <<>>)      \* an ic Principal of that text form
Bytes(str) == Node("bytes", str, 0, <<>>)    \* raw reply bytes
List(kids) == Node("list", <<>>, 0, kids)
Ent(k, v) == Node("ent", k, 0, <<v>>)
Map(ents) == Node("map", <<>>, 0, ents)
Raised(msg) == Node("raise", msg, 0, <<>>)   \* an exception in flight
NoTree == Node("none", <<>>, 0, <<>>)        \* a stage that did not run

IsMap(x) == x.t = "map"
IsList(x) == x.t = "list"
IsRaised(x) == x.t = "raise"
Key(e) == e.s
Val(e) == e.kids[1]
Keys(m) == {Key(m.kids[i]) : i \in 1..Len(m.kids)}
\* obj[k] for a key the mapping holds
Get(m, k) == Val(m.kids[CHOOSE i \in 1..Len(m.kids) : Key(m.kids[i]) = k])

\* the reply as the transport or the decoder hands it over: its mappings and
\* sequences are the caller's objects
RECURSIVE Handed(_)
Handed(obj) ==
    IF IsMap(obj) \/ IsList(obj) \/ obj.t = "ent"
    THEN [obj EXCEPT !.n = IF obj.t = "ent" THEN 0 ELSE 1,
                     !.kids = [i \in 1..Len(obj.kids) |-> Handed(obj.kids[i])]]
    ELSE obj

\* copy.deepcopy: every mapping and sequence is a new object
RECURSIVE DeepCopy(_)
DeepCopy(obj) ==
    IF IsMap(obj) \/ IsList(obj) \/ obj.t = "ent"
    THEN [obj EXCEPT !.n = 0,
                     !.kids = [i \in 1..Len(obj.kids) |-> DeepCopy(obj.kids[i])]]
    ELSE obj

\* newd[k] = v on a dict: a present key keeps its place, a new one goes last
DictSet(ents, k, v) ==
    IF \E i \in 1..Len(ents) : Key(ents[i]) = k
    THEN [i \in 1..Len(ents) |-> IF Key(ents[i]) = k THEN Ent(k, v) ELSE ents[i]]
    ELSE Append(ents, Ent(k, v))

-----------------------------------------------------------------------------
(* ICActor._rehydrate_hashed_keys *)

IsDigitStr(str) == str # <<>> /\ \A i \in 1..Len(str) : str[i] \in DigitSet

DigitValue == [c \in DigitSet |-> IndexOf(Digits, c) - 1]

\* int(digits)
RECURSIVE ParseInt(_, _)
ParseInt(acc, digits) ==
    IF digits = <<>> THEN acc
    ELSE LET t == acc[2] * 10 + DigitValue[Head(digits)]
         IN  ParseInt(<<acc[1] * 10 + (t \div Limb), t % Limb>>, Tail(digits))

\* k.startswith("_") and k[1:].isdigit()
IsHashedKey(k) == k # <<>> /\ Head(k) = "_" /\ IsDigitStr(Tail(k))

\* the key an entry gets: the mapped name of a hashed key whose number the
\* table holds (with a non-empty name), else the key itself
NewKey(table, k) ==
    IF IsHashedKey(k)
    THEN LET hh == ParseInt(<<0, 0>>, Tail(k))
         IN  IF hh \in DOMAIN table /\ table[hh] # <<>> THEN table[hh] ELSE k
    ELSE k

RECURSIVE Rehydrate(_, _)

\* a plausible slip: the value of a renamed key is not descended into
RehydrateValueUnlessRenamed(table, k, v) ==
    IF NewKey(table, k) # k THEN v ELSE Rehydrate(table, v)

\* a plausible shortcut: only the value of a hashed key is rebuilt, any other
\* value is stored as it is
RehydrateValueIfHashed(table, k, v) ==
    IF IsHashedKey(k) THEN Rehydrate(table, v) ELSE v

\* the value stored under the new key: self._rehydrate_hashed_keys(v)
RehydrateValue(table, k, v) == Rehydrate(table, v)

\* the loop over obj.items(), filling newd
RECURSIVE RehydrateEntries(_, _, _)
RehydrateEntries(table, ents, newd) ==
    IF ents = <<>> THEN newd
    ELSE RehydrateEntries(table, Tail(ents),
             DictSet(newd, NewKey(table, Key(Head(ents))),
                     RehydrateValue(table, Key(Head(ents)), Val(Head(ents)))))

Rehydrate(table, obj) ==
    IF IsMap(obj) THEN Map(RehydrateEntries(table, obj.kids, <<>>))
    ELSE IF IsList(obj)
    THEN List([i \in 1..Len(obj.kids) |-> Rehydrate(table, obj.kids[i])])
    ELSE obj

-----------------------------------------------------------------------------
(* ICActor._unwrap_unit_variants_inplace.  The function mutates obj in
   place; Unwrap(obj) is that same object, with its content afterwards.  The
   tree it is called on was just built by the rehydrator, so no mapping or
   sequence of it is reachable twice. *)

UnitMarker == <<"_","_","u","n","i","t","_","_">>

\* isinstance(val, dict) and "__unit__" in val and len(val) == 1
IsMarked(val) == IsMap(val) /\ Len(val.kids) = 1 /\ UnitMarker \in Keys(val)

RECURSIVE Unwrap(_)

\* a plausible slip: the marker is looked for before the recursive call
UnwrapEntryTestFirst(e) ==
    IF IsMarked(Val(e)) THEN Ent(Key(e), Get(Val(e), UnitMarker))
    ELSE Ent(Key(e), Unwrap(Val(e)))

\* one turn of the loop over list(obj.keys())
UnwrapEntry(e) ==
    LET val == Unwrap(Val(e))
    IN  IF IsMarked(val) THEN Ent(Key(e), Get(val, UnitMarker)) ELSE Ent(Key(e), val)

Unwrap(obj) ==
    IF IsMap(obj)
    THEN IF Len(obj.kids) = 1 /\ Val(obj.kids[1]) = Nil
         THEN [obj EXCEPT !.kids = <<Ent(UnitMarker, Str(Key(obj.kids[1])))>>]
         ELSE [obj EXCEPT !.kids = [i \in 1..Len(obj.kids) |-> UnwrapEntry(obj.kids[i])]]
    ELSE IF IsList(obj)
    THEN [obj EXCEPT !.kids = [i \in 1..Len(obj.kids) |-> Unwrap(obj.kids[i])]]
    ELSE obj

-----------------------------------------------------------------------------
(* subacount_parsers.py *)

HexDigits == <<"0","1","2","3","4","5","6","7","8","9","A","B","C","D","E","F">>

\* bytes(blob) succeeds on a list of integers 0..255 only
BytesOk(kids) ==
    \A i \in 1..Len(kids) : kids[i].t = "int" /\ kids[i].n \in 0..255

\* a plausible slip: a byte below 16 gets one digit, as with format(b, "X")
RECURSIVE HexOfUnpadded(_)
HexOfUnpadded(kids) ==
    IF kids = <<>> THEN <<>>
    ELSE (IF Head(kids).n < 16 THEN <<HexDigits[Head(kids).n + 1]>>
          ELSE <<HexDigits[(Head(kids).n \div 16) + 1], HexDigits[(Head(kids).n % 16) + 1]>>)
         \o HexOfUnpadded(Tail(kids))

\* bytes(blob).hex().upper()
RECURSIVE HexOf(_)
HexOf(kids) ==
    IF kids = <<>> THEN <<>>
    ELSE <<HexDigits[(Head(kids).n \div 16) + 1], HexDigits[(Head(kids).n % 16) + 1]>>
         \o HexOf(Tail(kids))

\* Python truthiness of a value
Falsy(x) ==
    \/ x = Nil
    \/ x = Num(0)
    \/ x = Str(<<>>)
    \/ x = List(<<>>)
    \/ x = Map(<<>>)

BytesError == <<"bytes() rejected the blob">>

\* parse_subaccount_to_text_py: raises what bytes() raises
ParseSubaccountToText(kids) ==
    IF BytesOk(kids) THEN Str(HexOf(kids)) ELSE Raised(BytesError)

ParseOptBlobToHex(v) ==
    IF Falsy(v) THEN Str(<<>>)
    ELSE IF IsList(v) /\ Len(v.kids) = 1 /\ IsList(v.kids[1])
    THEN IF BytesOk(v.kids[1].kids) THEN Str(HexOf(v.kids[1].kids))
         ELSE ParseSubaccountToText(v.kids[1].kids)
    ELSE IF IsList(v) /\ \A i \in 1..Len(v.kids) : v.kids[i].t = "int"
    THEN IF BytesOk(v.kids) THEN Str(HexOf(v.kids)) ELSE Raised(BytesError)
    ELSE Str(<<>>)

SUBACCOUNT_KEYS == {<<"i","c","p","D","e","f","a","u","l","t","S","u","b","a","c","c","o","u","n","t">>,
                    <<"b","u","s","i","n","e","s","s","D","e","f","a","u","l","t","S","u","b","a","c","c","o","u","n","t">>}

\* the first exception among the converted kids, if any
FirstRaised(kids) ==
    kids[CHOOSE i \in 1..Len(kids) :
            IsRaised(kids[i]) /\ \A j \in 1..(i - 1) : ~IsRaised(kids[j])]

RECURSIVE ConvertSubaccounts(_)
ConvertSubaccounts(obj) ==
    IF IsMap(obj)
    THEN LET vals == [i \in 1..Len(obj.kids) |->
                        IF Key(obj.kids[i]) \in SUBACCOUNT_KEYS
                        THEN ParseOptBlobToHex(Val(obj.kids[i]))
                        ELSE ConvertSubaccounts(Val(obj.kids[i]))]
         IN  IF \E i \in 1..Len(vals) : IsRaised(vals[i]) THEN FirstRaised(vals)
             ELSE [obj EXCEPT !.kids = [i \in 1..Len(vals) |-> Ent(Key(obj.kids[i]), vals[i])]]
    ELSE IF IsList(obj)
    THEN LET vals == [i \in 1..Len(obj.kids) |-> ConvertSubaccounts(obj.kids[i])]
         IN  IF \E i \in 1..Len(vals) : IsRaised(vals[i]) THEN FirstRaised(vals)
             ELSE [obj EXCEPT !.kids = vals]
    ELSE obj

\* transform_login_result with inplace=False: the conversion of a deep copy
TransformLoginResult(data) == ConvertSubaccounts(DeepCopy(data))

-----------------------------------------------------------------------------
(* ICActor._convert_principals_inplace *)

RECURSIVE ConvertPrincipals(_, _)
ConvertPrincipals(lib, obj) ==
    IF ~lib THEN obj
    ELSE IF IsMap(obj)
    THEN [obj EXCEPT !.kids = [i \in 1..Len(obj.kids) |->
                 Ent(Key(obj.kids[i]), ConvertPrincipals(lib, Val(obj.kids[i])))]]
    ELSE IF IsList(obj)
    THEN [obj EXCEPT !.kids = [i \in 1..Len(obj.kids) |-> ConvertPrincipals(lib, obj.kids[i])]]
    ELSE IF obj.t = "prin" THEN Str(obj.s)
    ELSE obj

-----------------------------------------------------------------------------
(* ICActor._is_query and ICActor._extract_return_type *)

\* re.IGNORECASE comparison of a literal with the text at position i
MatchesAt(src, lit, i) ==
    /\ i + Len(lit) <= Len(src)
    /\ LowerText(Slice(src, i, i + Len(lit))) = LowerText(lit)

WordAt(src, k) == k >= 0 /\ k < Len(src) /\ IsWord(At(src, k))
\* \b
BoundaryAt(src, k) == WordAt(src, k - 1) # WordAt(src, k)

\* (?:"m"|\bm\b) at position p: the index after the name, or -1
MethodNameEnd(src, m, p) ==
    IF At(src, p) # "\"" /\ ToLower(At(src, p)) # ToLower(Head(m)) THEN -1
    ELSE IF At(src, p) = "\"" /\ MatchesAt(src, m, p + 1)
       /\ p + 1 + Len(m) < Len(src) /\ At(src, p + 1 + Len(m)) = "\""
    THEN p + Len(m) + 2
    ELSE IF BoundaryAt(src, p) /\ MatchesAt(src, m, p) /\ BoundaryAt(src, p + Len(m))
    THEN p + Len(m)
    ELSE -1

IsCharAt(src, k, c) == k < Len(src) /\ At(src, k) = c

\* one attempt of  (?:"m"|\bm\b)\s*:\s*\([^)]*\)\s*->\s*\(([^)]*)\)  at p:
\* the span of group 1 and the index after the match
MatchSignatureAt(src, m, p) ==
    LET a  == MethodNameEnd(src, m, p)
        s1 == SkipSpace(src, a)
        s2 == SkipSpace(src, s1 + 1)
        c1 == Find(src, <<")">>, s2 + 1)
        s3 == SkipSpace(src, c1 + 1)
        s4 == SkipSpace(src, s3 + 2)
        c2 == Find(src, <<")">>, s4 + 1)
    IN  IF /\ a >= 0
           /\ IsCharAt(src, s1, ":")
           /\ IsCharAt(src, s2, "(")
           /\ c1 >= 0
           /\ StartsWithAt(src, <<"-", ">">>, s3)
           /\ IsCharAt(src, s4, "(")
           /\ c2 >= 0
        THEN [ok |-> TRUE, from |-> s4 + 1, to |-> c2, end |-> c2 + 1]
        ELSE [ok |-> FALSE, from |-> 0, to |-> 0, end |-> 0]

KwQuery == <<"q","u","e","r","y">>

\* the signature followed by  \s*query\b
MatchQueryAt(src, m, p) ==
    LET sig == MatchSignatureAt(src, m, p)
        q   == SkipSpace(src, sig.end)
    IN  /\ sig.ok
        /\ MatchesAt(src, KwQuery, q)
        /\ BoundaryAt(src, q + Len(KwQuery))

IsQuery(src, m) == \E p \in 0..(Len(src) - 1) : MatchQueryAt(src, m, p)

\* the stripped group 1 of the leftmost match; <<>> stands for both None and
\* the empty string, which the caller does not tell apart
ExtractReturnType(src, m) ==
    LET starts == {p \in 0..(Len(src) - 1) : MatchSignatureAt(src, m, p).ok}
    IN  IF starts = {} THEN <<>>
        ELSE LET sig == MatchSignatureAt(src, m, Least(starts))
             IN  Strip(Slice(src, sig.from, sig.to))

-----------------------------------------------------------------------------
(* ICActor.call_method, with ICActor._raw_call *)

KeyStatus == <<"s","t","a","t","u","s">>
KeyMessage == <<"m","e","s","s","a","g","e">>
KeyBytes == <<"b","y","t","e","s">>
TextError == <<"e","r","r","o","r">>
TextRawBytes == <<"r","a","w","-","b","y","t","e","s">>
MsgPrefix == <<"fallback decode failed: ">>

ErrorResult(msg) ==
    Map(<<Ent(KeyStatus, Str(TextError)), Ent(KeyMessage, Str(MsgPrefix \o msg))>>)
RawBytesResult(raw) ==
    Map(<<Ent(KeyStatus, Str(TextRawBytes)), Ent(KeyBytes, raw)>>)

\* ic.principal imported at module load
PrincipalLib == TRUE

\* the last two normalization stages without the except clause: an exception
\* of theirs leaves call_method
FinishUncaught(col) ==
    LET hex == TransformLoginResult(col)
    IN  IF IsRaised(hex) THEN hex
        ELSE ConvertPrincipals(PrincipalLib, hex)

\* the last two normalization stages, on the collapsed tree; an exception
\* of theirs ends in the except clause of call_method
Finish(col) ==
    LET hex == TransformLoginResult(col)
    IN  IF IsRaised(hex) THEN ErrorResult(hex.s)
        ELSE ConvertPrincipals(PrincipalLib, hex)

Decoded(tree) == [ok |-> TRUE, tree |-> tree, result |-> NoTree]
Returned(res) == [ok |-> FALSE, tree |-> NoTree, result |-> res]

\* call_method up to the normalization: the tree to normalize, or what the
\* call returns without normalizing.  rep.kind is "raise" (encoding or the
\* transport raised rep.tree), "bytes" (raw reply bytes, or a tuple starting
\* with them; rep.typed and rep.probe tell whether decode() with the return
\* type and with the two-armed probe type succeed, giving rep.tree) or "tree"
\* (an already structured reply).
Received(act, c, rep) ==
    IF rep.kind = "raise" THEN Returned(ErrorResult(rep.tree.s))
    ELSE IF rep.kind = "bytes"
    THEN LET rtype == IF c.return_type # <<>> THEN c.return_type
                      ELSE ExtractReturnType(act.candid_text, c.method)
         IN  IF rtype # <<>>
             THEN IF rep.typed THEN Decoded(Handed(rep.tree))
                  ELSE Returned(ErrorResult(<<"IDL error">>))
             ELSE IF rep.probe THEN Decoded(Handed(rep.tree))
                  ELSE Returned(RawBytesResult(Bytes(<<"raw">>)))
    ELSE Decoded(Handed(rep.tree))

EncodeError == <<"encode error">>
TransportError == <<"transport error">>

\* a transport that calls again when the first call raised
TransportRetrying(act, c, rep) ==
    LET mode == IF IsQuery(act.candid_text, c.method) THEN "query" ELSE "update"
    IN  IF rep.kind = "raise" /\ rep.tree.s = EncodeError THEN <<>>
        ELSE IF rep.kind = "raise" THEN <<mode, mode>>
        ELSE <<mode>>

\* ICActor._raw_call: the calls made on the agent; none when encoding the
\* arguments raised, else one query_raw or one update_raw
Transport(act, c, rep) ==
    IF rep.kind = "raise" /\ rep.tree.s = EncodeError THEN <<>>
    ELSE IF IsQuery(act.candid_text, c.method) THEN <<"query">>
    ELSE <<"update">>

-----------------------------------------------------------------------------
(* SpecHash: names are grown one character at a time and hashed *)

InitIdleHash ==
    /\ name = <<>>
    /\ h = <<0, 0>>

InitIdleHex ==
    /\ opt_blob = Nil
    /\ hex_text = NoTree

\* self._config = None
NoConfig == [set |-> FALSE, network |-> NoTree, log_level |-> NoTree,
             backup_retention_days |-> NoTree]
\* no options file; in a file, NoTree stands for a key the file does not hold
NoOptions == [kind |-> "absent", network |-> NoTree, log_level |-> NoTree,
              backup_retention_days |-> NoTree]
NoLoad == [raised |-> "none", config |-> NoConfig]

InitIdleConfig ==
    /\ options = NoOptions
    /\ cached_config = NoConfig
    /\ config_out = NoLoad

\* no operation of the IdentityManager has been called
NoOperation == [op |-> "none", id |-> <<>>, name |-> <<>>, raised |-> "none"]

InitIdleManager ==
    /\ canisters = {}
    /\ actors = {}
    /\ canisters_file = {}
    /\ loadable = TRUE
    /\ manager_out = NoOperation

InitIdleBuild ==
    /\ did_text = <<>>
    /\ names = {}
    /\ mapping = <<>>
    /\ built = FALSE

NoCall == [method |-> <<>>, return_type |-> <<>>]
NoReply == [kind |-> "none", tree |-> NoTree, typed |-> FALSE, probe |-> FALSE]
NoActor == [built |-> FALSE, candid_text |-> <<>>, hash_to_name |-> <<>>]

InitIdleCall ==
    /\ actor = NoActor
    /\ reply = NoReply
    /\ hydrated = NoTree
    /\ collapsed = NoTree
    /\ call = NoCall
    /\ sent = <<>>
    /\ result = NoTree
    /\ pc = "idle"

InitHash ==
    /\ name = <<>>
    /\ h = CandidHash(<<>>)
    /\ InitIdleBuild
    /\ InitIdleCall
    /\ InitIdleHex
    /\ InitIdleConfig
    /\ InitIdleManager

HashName(c) ==
    /\ Len(name) < MaxNameLen
    /\ name' = Append(name, c)
    /\ h' = CandidHash(name')
    /\ UNCHANGED <<buildVars, callVars, hexVars, configVars, managerVars>>

\* the names are over the characters o, k, z and the two-byte é
SpecHash == InitHash /\ [][\E c \in {"o", "k", "z", "é"} : HashName(c)]_vars

-----------------------------------------------------------------------------
(* SpecHex: _parse_opt_blob_to_hex applied to the empty opt and to blobs of
   up to MaxBlobLen integers, wrapped in an opt and flat *)

\* the sequences of up to n integers: bytes, and 256 that is no byte
RECURSIVE BlobsUpTo(_)
BlobsUpTo(n) ==
    IF n = 0 THEN {<<>>}
    ELSE LET shorter == BlobsUpTo(n - 1)
         IN  shorter \cup {Append(b, Num(v)) : b \in {x \in shorter : Len(x) = n - 1},
                                               v \in {0, 6, 7, 96, 143, 252, 255, 256}}

InitHex ==
    /\ \E b \in BlobsUpTo(MaxBlobLen) : opt_blob \in {List(b), List(<<List(b)>>)}
    /\ hex_text = NoTree
    /\ InitIdleHash
    /\ InitIdleBuild
    /\ InitIdleCall
    /\ InitIdleConfig
    /\ InitIdleManager

ParseBlob ==
    /\ hex_text = NoTree
    /\ hex_text' = ParseOptBlobToHex(opt_blob)
    /\ UNCHANGED <<opt_blob, hashVars, buildVars, callVars, configVars, managerVars>>

SpecHex == InitHex /\ [][ParseBlob]_vars

-----------------------------------------------------------------------------
(* SpecConfig: ConfigManager.  The options file is rewritten from outside,
   load_config and get_config are called in any order. *)

VALID_NETWORKS == {Str(<<"mainnet">>), Str(<<"testnet">>), Str(<<"local">>)}
VALID_LOG_LEVELS == {Str(<<"DEBUG">>), Str(<<"INFO">>), Str(<<"WARNING">>), Str(<<"ERROR">>)}

\* raw_config.get(key, default)
GetOr(v, default) == IF v = NoTree THEN default ELSE v

\* AddonConfig(network=raw_config.get('network', 'mainnet'), ...)
AddonConfig(raw) ==
    [set |-> TRUE,
     network |-> GetOr(raw.network, Str(<<"mainnet">>)),
     log_level |-> GetOr(raw.log_level, Str(<<"INFO">>)),
     backup_retention_days |-> GetOr(raw.backup_retention_days, Num(30))]

\* _validate_config: "ok", or the exception it raises.  The comparison
\* 1 <= backup_retention_days <= 365 raises TypeError on a value that is no
\* number, before the collected errors are raised as a ValueError.
ValidateConfig(config) ==
    IF config.backup_retention_days.t # "int" THEN "TypeError"
    ELSE IF \/ config.network \notin VALID_NETWORKS
            \/ config.log_level \notin VALID_LOG_LEVELS
            \/ config.backup_retention_days.n \notin 1..365
    THEN "ValueError"
    ELSE "ok"

\* load_config up to the assignment of self._config: "ok" or the exception
LoadOutcome(file) ==
    IF file.kind = "invalid json" THEN "ValueError"
    ELSE IF file.kind = "list" THEN "AttributeError"
    ELSE ValidateConfig(AddonConfig(file))

\* the options files: none, one that is no JSON, one holding a JSON list,
\* and objects with or without each key
OptionFiles ==
    {[NoOptions EXCEPT !.kind = k] : k \in {"absent", "invalid json", "list"}}
    \cup [kind : {"dict"},
          network : {NoTree, Nil, Str(<<"local">>), Str(<<"testnet">>), Str(<<"staging">>)},
          log_level : {NoTree, Str(<<"DEBUG">>), Str(<<"TRACE">>)},
          backup_retention_days : {NoTree, Num(7), Num(0), Str(<<"30">>)}]

InitConfig ==
    /\ options \in OptionFiles
    /\ cached_config = NoConfig
    /\ config_out = NoLoad
    /\ InitIdleHash
    /\ InitIdleHex
    /\ InitIdleBuild
    /\ InitIdleCall
    /\ InitIdleManager

\* the options file is replaced
WriteOptions ==
    /\ \E file \in OptionFiles : options' = file
    /\ config_out' = NoLoad
    /\ UNCHANGED <<cached_config, hashVars, hexVars, buildVars, callVars, managerVars>>

\* ConfigManager.load_config
LoadConfig ==
    /\ LET out == LoadOutcome(options)
       IN  /\ cached_config' = IF out = "ok" THEN AddonConfig(options) ELSE cached_config
           /\ config_out' = [raised |-> IF out = "ok" THEN "none" ELSE out,
                             config |-> IF out = "ok" THEN AddonConfig(options) ELSE NoConfig]
    /\ UNCHANGED <<options, hashVars, hexVars, buildVars, callVars, managerVars>>

\* ConfigManager.get_config
GetConfig ==
    /\ IF cached_config.set
       THEN /\ config_out' = [raised |-> "none", config |-> cached_config]
            /\ UNCHANGED cached_config
       ELSE LET out == LoadOutcome(options)
            IN  /\ cached_config' = IF out = "ok" THEN AddonConfig(options) ELSE cached_config
                /\ config_out' = [raised |-> IF out = "ok" THEN "none" ELSE out,
                                  config |-> IF out = "ok" THEN AddonConfig(options) ELSE NoConfig]
    /\ UNCHANGED <<options, hashVars, hexVars, buildVars, callVars, managerVars>>

SpecConfig == InitConfig /\ [][WriteOptions \/ LoadConfig \/ GetConfig]_vars

-----------------------------------------------------------------------------
(* SpecManager: the IdentityManager.  canisters is the registry _canisters, a
   dict kept as the set of its <<name, id>> items; actors is the set of keys
   of the cache _actors; canisters_file is the "canisters" member of
   canisters.json, empty when there is no file; loadable tells whether
   ICActor finds its interface text; manager_out is the last call and what
   it raised. *)

\* the ids and names the operations are called with; the empty text stands
\* for a missing argument too
CanisterIds == {<<>>, <<"x">>, <<"y">>}
CanisterNames == {<<>>, <<"a">>, <<" ","a">>, <<"x">>}

\* d[name] = canister_id on a dict
Register(d, nm, id) == {e \in d : e[1] # nm} \cup {<<nm, id>>}

\* d.values()
IdsOf(d) == {e[2] : e \in d}

\* _save_canisters: the file holds the registry, or is left as it was when
\* writing failed (the exception is logged)
SaveCanisters(file, d) == {d, file}

\* an add_canister that registers the name before it builds the actor
AddCanisterRegisteringFirst(canister_id, canister_name) ==
    LET nm == Strip(IF canister_name # <<>> THEN canister_name ELSE canister_id)
    IN  /\ canister_id # <<>>
        /\ canisters' = Register(canisters, nm, canister_id)
        /\ actors' = IF loadable THEN actors \cup {canister_id} ELSE actors
        /\ canisters_file' \in IF loadable
                                THEN SaveCanisters(canisters_file, canisters')
                                ELSE {canisters_file}
        /\ manager_out' = [op |-> "add_canister", id |-> canister_id,
                           name |-> canister_name,
                           raised |-> IF loadable THEN "none" ELSE "RuntimeError"]
        /\ UNCHANGED <<loadable, hashVars, hexVars, buildVars, callVars, configVars>>

\* IdentityManager.add_canister
AddCanister(canister_id, canister_name) ==
    LET nm == Strip(IF canister_name # <<>> THEN canister_name ELSE canister_id)
        raised == IF canister_id = <<>> THEN "ValueError"
                  ELSE IF ~loadable THEN "RuntimeError"
                  ELSE "none"
    IN  /\ IF raised = "none"
           THEN /\ canisters' = Register(canisters, nm, canister_id)
                /\ actors' = actors \cup {canister_id}
                /\ canisters_file' \in SaveCanisters(canisters_file, canisters')
           ELSE UNCHANGED <<canisters, actors, canisters_file>>
        /\ manager_out' = [op |-> "add_canister", id |-> canister_id,
                           name |-> canister_name, raised |-> raised]
        /\ UNCHANGED <<loadable, hashVars, hexVars, buildVars, callVars, configVars>>

\* IdentityManager.delete_canister
DeleteCanister(canister_name) ==
    LET found == {e \in canisters : e[1] = canister_name}
    IN  /\ IF canister_name # <<>> /\ found # {}
           THEN /\ canisters' = canisters \ found
                /\ actors' = actors \ (IdsOf(found) \ IdsOf(canisters'))
                /\ canisters_file' \in SaveCanisters(canisters_file, canisters')
           ELSE UNCHANGED <<canisters, actors, canisters_file>>
        /\ manager_out' = [op |-> "delete_canister", id |-> <<>>,
                           name |-> canister_name,
                           raised |-> IF canister_name # <<>> /\ found # {}
                                      THEN "none" ELSE "ValueError"]
        /\ UNCHANGED <<loadable, hashVars, hexVars, buildVars, callVars, configVars>>

\* IdentityManager.call_canister_method, up to the call of the actor
CallCanisterMethod(canister_name) ==
    LET found == {e \in canisters : e[1] = canister_name}
        raised == IF found = {} THEN "ValueError"
                  ELSE IF IdsOf(found) \subseteq actors \/ loadable THEN "none"
                  ELSE "RuntimeError"
    IN  /\ actors' = IF raised = "none" THEN actors \cup IdsOf(found) ELSE actors
        /\ manager_out' = [op |-> "call_canister_method", id |-> <<>>,
                           name |-> canister_name, raised |-> raised]
        /\ UNCHANGED <<canisters, canisters_file, loadable,
                       hashVars, hexVars, buildVars, callVars, configVars>>

\* IdentityManager.regenerate_identity
RegenerateIdentity ==
    /\ actors' = {}
    /\ canisters' = {}
    /\ canisters_file' \in SaveCanisters(canisters_file, canisters')
    /\ manager_out' = [op |-> "regenerate_identity", id |-> <<>>, name |-> <<>>,
                       raised |-> "none"]
    /\ UNCHANGED <<loadable, hashVars, hexVars, buildVars, callVars, configVars>>

\* IdentityManager.__init__ of a new process over the file: _load_canisters
\* keeps the names whose actor it could build
LoadCanisters ==
    /\ canisters' = IF loadable THEN canisters_file ELSE {}
    /\ actors' = IdsOf(canisters')
    /\ canisters_file' \in IF canisters' # canisters_file
                            THEN SaveCanisters(canisters_file, canisters')
                            ELSE {canisters_file}
    /\ manager_out' = [op |-> "init", id |-> <<>>, name |-> <<>>, raised |-> "none"]
    /\ UNCHANGED <<loadable, hashVars, hexVars, buildVars, callVars, configVars>>

\* the interface file appears or disappears
SetLoadable ==
    /\ loadable' = ~loadable
    /\ UNCHANGED <<canisters, actors, canisters_file, manager_out,
                   hashVars, hexVars, buildVars, callVars, configVars>>

InitManager ==
    /\ InitIdleManager
    /\ InitIdleHash
    /\ InitIdleHex
    /\ InitIdleBuild
    /\ InitIdleCall
    /\ InitIdleConfig

NextManager ==
    \/ \E id \in CanisterIds, nm \in CanisterNames : AddCanister(id, nm)
    \/ \E nm \in CanisterNames : DeleteCanister(nm)
    \/ \E nm \in CanisterNames : CallCanisterMethod(nm)
    \/ RegenerateIdentity
    \/ LoadCanisters
    \/ SetLoadable

SpecManager == InitManager /\ [][NextManager]_vars

-----------------------------------------------------------------------------
(* SpecBuild: _build_field_hash_map applied to interface texts made of up to
   MaxTokens tokens *)

NameA == <<"o","g","y","d","u","b">>
NameB == <<"j","u","a","q","c","x">>
RecordBlock(nm) == <<"r","e","c","o","r","d"," ","{"," ">> \o nm \o <<" ",":"," ","t","e","x","t",";"," ","}">>
RecordBody(nm) == <<" ">> \o nm \o <<" ",":"," ","t","e","x","t",";"," ">>
ExampleVariant == <<"v","a","r","i","a","n","t"," ","{"," ","o","n","e","O","n","O","n","e",";"," ","g","r","o","u","p"," ",":"," ","r","e","c","o","r","d"," ","{"," ","t","i","t","l","e"," ",":"," ","t","e","x","t"," ","}"," ","}">>

\* a record block with a field spelled like a type keyword, then a variant
\* block with a quoted and bare alternatives spelled like type keywords
KeywordBlocks == <<"r","e","c","o","r","d"," ","{"," ","t","e","x","t"," ",":"," ","n","a","t",";"," ","}"," ","v","a","r","i","a","n","t"," ","{"," ","\"","v","e","c","\"",";"," ","n","a","t"," ",":"," ","t","e","x","t",";"," ","o","p","t"," ","}">>

\* the pieces of the texts: the two blocks, the example interface, what
\* opens and closes a line comment, a block comment and a record block, a
\* block comment that holds two slashes, and the blocks with keywords
Tokens == {RecordBlock(NameA), RecordBlock(NameB), ExampleVariant,
           KeywordBlocks,
           <<"/","/"," ">>, <<"\n">>,
           <<"/","*"," ">>, <<" ","*","/">>, <<"/","*"," ","/","/"," ","*","/">>,
           <<"r","e","c","o","r","d"," ","{"," ">>, <<" ","}">>}

RECURSIVE TokenSeqs(_)
TokenSeqs(n) ==
    IF n = 0 THEN {<<>>}
    ELSE LET shorter == TokenSeqs(n - 1)
         IN  shorter \cup {Append(ts, t) : ts \in {x \in shorter : Len(x) = n - 1},
                                           t \in Tokens}

InitBuild ==
    /\ did_text \in TokenSeqs(MaxTokens)
    /\ names = {}
    /\ mapping = <<>>
    /\ built = FALSE
    /\ InitIdleHash
    /\ InitIdleCall
    /\ InitIdleHex
    /\ InitIdleConfig
    /\ InitIdleManager

BuildFieldHashMap ==
    /\ ~built
    /\ names' = HarvestNames(Flatten(did_text))
    /\ mapping' \in FieldHashTables(names')
    /\ built' = TRUE
    /\ UNCHANGED <<did_text, hashVars, callVars, hexVars, configVars, managerVars>>

SpecBuild == InitBuild /\ [][BuildFieldHashMap]_vars

-----------------------------------------------------------------------------
(* Spec: an actor is constructed from the interface file and a call_method
   dispatch is made on it; the call's arguments and what the transport and
   the decoder answer are the inputs of the dispatch. *)

NameUnit == <<"o","n","e","O","n","O","n","e">>
NameTitle == <<"t","i","t","l","e">>

\* "_" followed by the decimal digits of a hash, the decoder's key for a
\* field whose name it does not know
RECURSIVE Decimal(_)
Decimal(v) ==
    LET t == (v[1] % 10) * Limb + v[2]
        q == <<v[1] \div 10, t \div 10>>
    IN  (IF q = <<0, 0>> THEN <<>> ELSE Decimal(q)) \o <<Digits[(t % 10) + 1]>>

HashedKey(nm) == <<"_">> \o Decimal(CandidHash(nm))

ReplyKeys == {HashedKey(NameUnit), HashedKey(NameTitle), NameUnit, UnitMarker,
              <<"_", "7">>}

\* the trees of depth up to d whose mappings and sequences have up to two
\* members, the second one the leaf 5
RECURSIVE Trees(_)
Trees(d) ==
    IF d = 0 THEN {Nil, Num(5)}
    ELSE LET sub == Trees(d - 1)
         IN  sub
             \cup {Map(<<>>), List(<<>>)}
             \cup {Map(<<Ent(k, v)>>) : k \in ReplyKeys, v \in sub}
             \cup {List(<<v>>) : v \in sub}
             \cup {Map(<<Ent(k[1], v), Ent(k[2], l)>>) :
                       k \in {kk \in ReplyKeys \X ReplyKeys : kk[1] # kk[2]},
                       v \in sub, l \in {Num(5)}}
             \cup {List(<<v, l>>) : v \in sub, l \in {Num(5)}}

WideTrees == Trees(MaxWideDepth)

\* what a tree is put into on the way up to depth MaxDepth: a one-entry
\* mapping under a key, a one-element sequence, or nothing
InList == <<"[">>
Bare == <<>>
Wrappers == ReplyKeys \cup {InList, Bare}

RECURSIVE WrapFrom(_, _, _)
WrapFrom(w, i, x) ==
    IF i > Len(w) THEN x
    ELSE LET in == WrapFrom(w, i + 1, x)
         IN  IF w[i] = Bare THEN in
             ELSE IF w[i] = InList THEN List(<<in>>)
             ELSE Map(<<Ent(w[i], in)>>)

\* the structured replies: a tree of WideTrees under up to
\* MaxDepth - MaxWideDepth wrappers
ReplyTree(w, x) == WrapFrom(w, 1, x)
WrapSeqs == [1..(MaxDepth - MaxWideDepth) -> Wrappers]

LoginService == <<"s","e","r","v","i","c","e"," ",":"," ","{"," ","l","o","g","i","n"," ",":"," ","(",")"," ","-",">"," ","(","v","a","r","i","a","n","t"," ","{"," ","o","k"," ",":"," ","r","e","c","o","r","d"," ","{"," ","\"","i","c","p","D","e","f","a","u","l","t","S","u","b","a","c","c","o","u","n","t","\""," ",":"," ","o","p","t"," ","b","l","o","b"," ","}",";"," ","e","r","r"," ",":"," ","t","e","x","t"," ","}",")"," ","q","u","e","r","y",";"," ","p","i","n","g"," ",":"," ","(",")"," ","-",">"," ","(","t","e","x","t",")",";"," ","}">>

MethodLogin == <<"l","o","g","i","n">>
\* login, ping, and a method the interface does not declare
Methods == {MethodLogin, <<"p","i","n","g">>, <<"n","o","p","e">>}

\* a method declaration  name : () -> (ret) [query];  and a service of two
Declare(d) ==
    d.name \o <<" ",":"," ","(",")"," ","-",">"," ","(">> \o d.ret \o <<")">>
        \o (IF d.query THEN <<" ","q","u","e","r","y">> ELSE <<>>) \o <<";"," ">>
ServiceText(ds) ==
    <<"s","e","r","v","i","c","e"," ",":"," ","{"," ">>
        \o Declare(ds[1]) \o Declare(ds[2]) \o <<"}">>

\* the declarations of the login service, of a service whose method names
\* differ in case only, and of one with a query method returning a function
ServiceDecls ==
    {<<[name |-> MethodLogin, query |-> TRUE,
        ret |-> <<"v","a","r","i","a","n","t"," ","{"," ","o","k"," ",":"," ","r","e","c","o","r","d"," ","{"," ","\"","i","c","p","D","e","f","a","u","l","t","S","u","b","a","c","c","o","u","n","t","\""," ",":"," ","o","p","t"," ","b","l","o","b"," ","}",";"," ","e","r","r"," ",":"," ","t","e","x","t"," ","}">>],
       [name |-> <<"p","i","n","g">>, query |-> FALSE, ret |-> <<"t","e","x","t">>]>>,
     <<[name |-> MethodLogin, query |-> TRUE, ret |-> <<"t","e","x","t">>],
       [name |-> <<"L","o","g","i","n">>, query |-> FALSE, ret |-> <<"t","e","x","t">>]>>,
     <<[name |-> <<"w","a","t","c","h">>, query |-> TRUE,
        ret |-> <<"f","u","n","c"," ","(",")"," ","-",">"," ","(",")">>],
       [name |-> <<"p","i","n","g">>, query |-> FALSE, ret |-> <<"t","e","x","t">>]>>}

ActorFiles == {<<>>, <<ExampleVariant>>, <<LoginService>>}
                  \cup {<<ServiceText(ds)>> : ds \in ServiceDecls}

\* what arrives as the value of a subaccount field: no blob, an empty opt,
\* an opt holding a blob (empty, of bytes, with an integer that is no byte,
\* with a string), a bare list of integers, a string
Blobs == {Nil, List(<<>>), List(<<List(<<>>)>>),
          List(<<List(<<Num(96), Num(252)>>)>>), List(<<List(<<Num(256)>>)>>),
          List(<<List(<<Str(<<"a">>)>>)>>), List(<<Num(6), Num(143)>>),
          List(<<Num(-1)>>), Str(<<"6", "0">>)}

\* the replies of login: under the hashed "ok", a record with a field that
\* is a subaccount key, plain or hashed, or another key, and a second field
\* holding a principal or a number
LoginReplies ==
    {Map(<<Ent(HashedKey(NameOk), Map(<<Ent(k, b), Ent(NameTitle, p)>>))>>) :
        k \in SUBACCOUNT_KEYS \cup {HashedKey(n) : n \in SUBACCOUNT_KEYS} \cup {NameUnit},
        b \in Blobs,
        p \in {Prin(<<"a","a","a","a","a","-","a","a">>), Num(5)}}

\* the replies of a method that answers with a record of a status and a
\* message or a blob
StatusReplies ==
    {Map(<<Ent(KeyStatus, Str(st)), Ent(k, v)>>) :
        st \in {TextError, TextRawBytes, NameOk},
        k \in {KeyMessage, KeyBytes},
        v \in {Str(<<"x">>), Str(MsgPrefix \o <<"x">>), Bytes(<<"raw">>)}}

TreeCall(t) ==
    <<[method |-> MethodLogin, return_type |-> <<>>],
      [kind |-> "tree", tree |-> t, typed |-> TRUE, probe |-> TRUE]>>

BytesCalls ==
    {<<[method |-> m, return_type |-> rt],
       [kind |-> "bytes", tree |-> t, typed |-> ty, probe |-> pr]>> :
        m \in Methods, rt \in {<<>>, <<"t","e","x","t">>}, t \in Trees(1),
        ty \in BOOLEAN, pr \in BOOLEAN}

\* a call of each method of the declared services, answered with None
DeclaredCalls ==
    {<<[method |-> ds[i].name, return_type |-> <<>>], TreeCall(Nil)[2]>> :
        ds \in ServiceDecls, i \in 1..2}

RaiseCalls ==
    {<<[method |-> m, return_type |-> <<>>],
       [kind |-> "raise", tree |-> Raised(e),
        typed |-> TRUE, probe |-> TRUE]>> :
        m \in Methods, e \in {EncodeError, TransportError}}

Init ==
    /\ did_text \in ActorFiles
    /\ call = NoCall
    /\ reply = NoReply
    /\ actor = NoActor
    /\ hydrated = NoTree
    /\ collapsed = NoTree
    /\ result = NoTree
    /\ sent = <<>>
    /\ pc = "new"
    /\ names = {}
    /\ mapping = <<>>
    /\ built = FALSE
    /\ InitIdleHash
    /\ InitIdleHex
    /\ InitIdleConfig
    /\ InitIdleManager

\* ICActor.__init__ when _load_candid_interface returns "" (the file is
\* missing, unreadable or empty): RuntimeError, no actor
ConstructFails ==
    /\ pc = "new"
    /\ Flatten(did_text) = <<>>
    /\ pc' = "failed"
    /\ UNCHANGED <<actor, reply, hydrated, collapsed, call, sent, result,
                   hashVars, buildVars, hexVars, configVars, managerVars>>

\* a constructor without the test of line 67
ConstructUnchecked ==
    /\ pc = "new"
    /\ \E table \in FieldHashTables(HarvestNames(Flatten(did_text))) :
           actor' = [built |-> TRUE,
                     candid_text |-> Flatten(did_text),
                     hash_to_name |-> table]
    /\ pc' = "ready"
    /\ UNCHANGED <<reply, hydrated, collapsed, call, sent, result,
                   hashVars, buildVars, hexVars, configVars, managerVars>>

\* ICActor.__init__
Construct ==
    /\ pc = "new"
    /\ Flatten(did_text) # <<>>
    /\ \E table \in FieldHashTables(HarvestNames(Flatten(did_text))) :
           actor' = [built |-> TRUE,
                     candid_text |-> Flatten(did_text),
                     hash_to_name |-> table]
    /\ pc' = "ready"
    /\ UNCHANGED <<reply, hydrated, collapsed, call, sent, result,
                   hashVars, buildVars, hexVars, configVars, managerVars>>

\* a dispatch whose rehydrator remembers the hashed key it could not resolve
CallMethodMemoizing(c, rep) ==
    /\ pc = "ready"
    /\ call' = c
    /\ reply' = rep
    /\ LET got == Received(actor, c, rep)
       IN  /\ hydrated' = IF got.ok THEN Rehydrate(actor.hash_to_name, got.tree)
                          ELSE NoTree
           /\ collapsed' = IF got.ok THEN Unwrap(hydrated') ELSE NoTree
           /\ result' = IF got.ok THEN Finish(collapsed') ELSE got.result
           /\ actor' = IF got.ok /\ IsMap(got.tree) /\ <<"_", "7">> \in Keys(got.tree)
                       THEN [actor EXCEPT !.hash_to_name = (<<0, 7>> :> <<"_", "7">>) @@ @]
                       ELSE actor
    /\ sent' = Transport(actor, c, rep)
    /\ pc' = "returned"
    /\ UNCHANGED <<hashVars, buildVars, hexVars, configVars, managerVars>>

\* ICActor.call_method: one dispatch, start to return
CallMethod(c, rep) ==
    /\ pc = "ready"
    /\ call' = c
    /\ reply' = rep
    /\ LET got == Received(actor, c, rep)
       IN  /\ hydrated' = IF got.ok THEN Rehydrate(actor.hash_to_name, got.tree)
                          ELSE NoTree
           /\ collapsed' = IF got.ok THEN Unwrap(hydrated') ELSE NoTree
           /\ result' = IF got.ok THEN Finish(collapsed') ELSE got.result
    /\ sent' = Transport(actor, c, rep)
    /\ pc' = "returned"
    /\ UNCHANGED <<actor, hashVars, buildVars, hexVars, configVars, managerVars>>

\* a dispatch on the constructed actor; structured replies of every shape
\* go to the actor of the example interface, the replies of login to the
\* actor of the login service, the other replies (raw bytes, exceptions,
\* status records, the empty reply of each declared method) to every actor
Dispatch ==
    /\ pc = "ready"
    /\ \/ /\ actor.candid_text = ExampleVariant
          /\ \E w \in WrapSeqs, x \in WideTrees :
                 CallMethod(TreeCall(ReplyTree(w, x))[1], TreeCall(ReplyTree(w, x))[2])
       \/ /\ actor.candid_text = LoginService
          /\ \E t \in LoginReplies : CallMethod(TreeCall(t)[1], TreeCall(t)[2])
       \/ \E d \in BytesCalls \cup RaiseCalls \cup DeclaredCalls
                      \cup {TreeCall(t) : t \in StatusReplies} :
              CallMethod(d[1], d[2])

\* the task of a dispatch is cancelled: call_method awaits nothing, so the
\* cancellation takes effect before its body starts and nothing of it runs
CancelCall ==
    /\ pc = "ready"
    /\ pc' = "cancelled"
    /\ UNCHANGED <<actor, reply, hydrated, collapsed, call, sent, result,
                   hashVars, buildVars, hexVars, configVars, managerVars>>

\* the caller has the outcome; the actor is ready for its next dispatch,
\* whose locals start afresh
NextCall ==
    /\ pc \in {"returned", "cancelled"}
    /\ pc' = "ready"
    /\ call' = NoCall
    /\ reply' = NoReply
    /\ hydrated' = NoTree
    /\ collapsed' = NoTree
    /\ result' = NoTree
    /\ sent' = <<>>
    /\ UNCHANGED <<actor, hashVars, buildVars, hexVars, configVars, managerVars>>

Next ==
    \/ ConstructFails
    \/ Construct
    \/ Dispatch
    \/ CancelCall
    \/ NextCall

Spec == Init /\ [][Next]_vars

-----------------------------------------------------------------------------
(* The reference fold of C4, computed on four base-256 digits (least
   significant first): "mod 2^32" is dropping the carry out of the fourth. *)

RefStep(d, b) ==
    LET t1 == d[1] * 223 + b
        t2 == d[2] * 223 + (t1 \div 256)
        t3 == d[3] * 223 + (t2 \div 256)
        t4 == d[4] * 223 + (t3 \div 256)
    IN  <<t1 % 256, t2 % 256, t3 % 256, t4 % 256>>

RECURSIVE RefFold(_)
RefFold(bytes) ==
    IF bytes = <<>> THEN <<0, 0, 0, 0>>
    ELSE RefStep(RefFold(SubSeq(bytes, 1, Len(bytes) - 1)), bytes[Len(bytes)])

RefHash(str) ==
    LET d == RefFold(Encode(str)) IN <<d[4] * 256 + d[3], d[2] * 256 + d[1]>>

\* the fold before reduction exceeds 2^32 from five bytes on
Wraps(str) == Len(Encode(str)) >= 5

\* C4: the hash of every name is the left fold h := (h * 223 + byte) mod 2^32
\* over its UTF-8 bytes from 0; it lies in 0 .. 2^32 - 1, the empty string
\* hashes to 0 and "ok" to the wire protocol's 24860.
C4_HashIsFold ==
    /\ h = RefHash(name)
    /\ h[1] \in 0..65535 /\ h[2] \in 0..65535
    /\ (name = <<>> => h = <<0, 0>>)
    /\ (name = <<"o", "k">> => h = <<0, 24860>>)

\* a name with a multi-byte character whose fold wrapped around 2^32 and
\* whose hash has its top bit set
C4_Witness ==
    /\ Wraps(name)
    /\ "é" \in Range(name)
    /\ h[1] >= 32768
    /\ h = RefHash(name)

-----------------------------------------------------------------------------
(* Claims on the Field Map Builder *)

FieldNames == {NameA, NameB}

\* the harvested names that share the hash of nm
SameHash(nm) == {n \in names : CandidHash(n) = CandidHash(nm)}

\* the extractor yields the inner text of the block  record { nm : text; }
YieldsBlock(nm) ==
    LET rec == IterBalancedBlocks(StripCandidComments(Flatten(did_text)), KwRecord)
    IN  \E i \in 1..Len(rec) : rec[i] = RecordBody(nm)

C6_TableKeyedByHash ==
    built =>
        /\ \A hh \in DOMAIN mapping :
               /\ mapping[hh] \in names
               /\ RefHash(mapping[hh]) = hh
        /\ \A n \in names : RefHash(n) \in DOMAIN mapping
        /\ Cardinality(DOMAIN mapping) = Cardinality({RefHash(n) : n \in names})

\* two distinct harvested names with the same hash, one entry for it
C6_Witness ==
    /\ built
    /\ {NameA, NameB} \subseteq names
    /\ NameA # NameB
    /\ RefHash(NameA) = RefHash(NameB)
    /\ mapping[RefHash(NameA)] \in {NameA, NameB}
    /\ Cardinality(DOMAIN mapping) < Cardinality(names)

-----------------------------------------------------------------------------
(* Claims on the normalization of reply trees *)

\* the stages ran in this state
Normalized == pc = "returned" /\ hydrated # NoTree

Table == actor.hash_to_name
TableNames == {Table[hh] : hh \in DOMAIN Table}

Child(x, i) == IF IsMap(x) THEN Val(x.kids[i]) ELSE x.kids[i]

\* the index paths to all nodes of a tree
RECURSIVE PathsOf(_)
PathsOf(x) ==
    {<<>>} \cup
    (IF IsMap(x) \/ IsList(x)
     THEN UNION {{<<i>> \o q : q \in PathsOf(Child(x, i))} : i \in 1..Len(x.kids)}
     ELSE {})

\* the node at a path, NoTree when the tree has no such path
RECURSIVE Sub(_, _)
Sub(x, q) ==
    IF q = <<>> THEN x
    ELSE IF (IsMap(x) \/ IsList(x)) /\ Head(q) <= Len(x.kids)
    THEN Sub(Child(x, Head(q)), Tail(q))
    ELSE NoTree

Parent(q) == SubSeq(q, 1, Len(q) - 1)

\* C1 as stated: with the table of the example interface, the top-level reply
\* {"_<hash of oneOnOne>": None} makes call_method return the scalar "oneOnOne".
C1_Original ==
    (/\ pc = "returned"
     /\ actor.candid_text = ExampleVariant
     /\ reply.kind = "tree"
     /\ reply.tree = Map(<<Ent(HashedKey(NameUnit), Nil)>>))
    => result = Str(NameUnit)

\* every mapping key of the tree is the hashed form of a name the table holds
RECURSIVE AllKeysHashedKnown(_)
AllKeysHashedKnown(x) ==
    /\ IsMap(x) => \A i \in 1..Len(x.kids) :
                       \E n \in TableNames : Key(x.kids[i]) = HashedKey(n)
    /\ (IsMap(x) \/ IsList(x)) =>
           \A i \in 1..Len(x.kids) : AllKeysHashedKnown(Child(x, i))

\* the tree with every hashed key replaced by the name it is the hash of
RECURSIVE Named(_)
Named(x) ==
    IF IsMap(x)
    THEN Map([i \in 1..Len(x.kids) |->
                 Ent(CHOOSE n \in TableNames : Key(x.kids[i]) = HashedKey(n),
                     Named(Val(x.kids[i])))])
    ELSE IF IsList(x) THEN List([i \in 1..Len(x.kids) |-> Named(x.kids[i])])
    ELSE x

\* C2: a tree whose mapping keys are all hashed forms of names the table
\* holds is rehydrated to the same tree with every key, at every depth and
\* inside sequences, replaced by its name; the leaves are unchanged.
C2_RoundTrip ==
    (Normalized /\ AllKeysHashedKnown(reply.tree)) => hydrated = Named(reply.tree)

HashedTwoLevels ==
    Map(<<Ent(HashedKey(NameUnit),
              List(<<Map(<<Ent(HashedKey(NameTitle), Nil),
                           Ent(HashedKey(NameUnit), Num(5))>>)>>))>>)

\* a renamed key over a sequence over a mapping with two renamed keys
C2_Witness ==
    /\ Normalized
    /\ reply.tree = HashedTwoLevels
    /\ hydrated = Map(<<Ent(NameUnit,
                            List(<<Map(<<Ent(NameTitle, Nil),
                                         Ent(NameUnit, Num(5))>>)>>))>>)

\* a key the rehydrator is to leave alone: not the hashed form of a number
\* the table holds
Verbatim(k) == \A hh \in DOMAIN Table : k # <<"_">> \o Decimal(hh)

\* C3 as stated: every entry of every mapping of the tree whose key is an
\* unknown hashed key or not a hashed key is in the rehydrated mapping under
\* the same key with its rehydrated value.
C3_Original ==
    Normalized =>
        \A q \in PathsOf(reply.tree) :
            LET x == Sub(reply.tree, q)
                y == IF q = <<>> THEN hydrated ELSE Rehydrate(Table, x)
            IN  IsMap(x) =>
                    \A i \in 1..Len(x.kids) :
                        Verbatim(Key(x.kids[i])) =>
                            /\ Key(x.kids[i]) \in Keys(y)
                            /\ Get(y, Key(x.kids[i])) = Rehydrate(Table, Val(x.kids[i]))

\* {k: None}
IsUnit(x) == IsMap(x) /\ Len(x.kids) = 1 /\ Val(x.kids[1]) = Nil

\* C7 as stated: a one-entry mapping {k: None} that is the value of a field
\* of a mapping is, after the collapser ran, the scalar k at that field.
C7_Original ==
    Normalized =>
        \A q \in PathsOf(hydrated) \ {<<>>} :
            (IsMap(Sub(hydrated, Parent(q))) /\ IsUnit(Sub(hydrated, q)))
            => Sub(collapsed, q) = Str(Key(Sub(hydrated, q).kids[1]))

\* C8 as stated: a one-entry mapping {k: v}, v not None, that is the value of
\* a field of a mapping is still a one-entry mapping with key k at that field
\* after the collapser ran.
C8_Original ==
    Normalized =>
        \A q \in PathsOf(hydrated) \ {<<>>} :
            LET x == Sub(hydrated, q)
                y == Sub(collapsed, q)
            IN  (/\ IsMap(Sub(hydrated, Parent(q)))
                 /\ IsMap(x) /\ Len(x.kids) = 1 /\ Val(x.kids[1]) # Nil)
                => (IsMap(y) /\ Len(y.kids) = 1 /\ Key(y.kids[1]) = Key(x.kids[1]))

\* C9 as stated: an element of a sequence that is a one-entry mapping
\* {k: None} is, after the collapser ran, the scalar k in that slot.
C9_Original ==
    Normalized =>
        \A q \in PathsOf(hydrated) \ {<<>>} :
            (IsList(Sub(hydrated, Parent(q))) /\ IsUnit(Sub(hydrated, q)))
            => Sub(collapsed, q) = Str(Key(Sub(hydrated, q).kids[1]))

\* C10: collapsing the tree the collapser produced changes nothing.
C10_Idempotent == Normalized => Unwrap(collapsed) = collapsed

\* a unit variant under a mapping keyed by the marker, under a field: the
\* collapser replaced the unit variant and then the mapping above it, and a
\* second run finds nothing to replace
C10_Witness ==
    /\ Normalized
    /\ hydrated = Map(<<Ent(NameUnit,
                      Map(<<Ent(UnitMarker, Map(<<Ent(NameUnit, Nil)>>))>>))>>)
    /\ collapsed = Map(<<Ent(NameUnit, Str(NameUnit))>>)
    /\ Unwrap(collapsed) = collapsed

-----------------------------------------------------------------------------
(* Claims on the blob converter *)

\* the value of an uppercase hexadecimal digit, -1 for any other character
HexDigitValue(c) ==
    IF c \in DigitSet THEN IndexOf(Digits, c) - 1
    ELSE IF c \in {"A", "B", "C", "D", "E", "F"} THEN 9 + IndexOf(Upper, c)
    ELSE -1

\* a sequence of integers 0..255
IsByteSeq(kids) ==
    \A i \in 1..Len(kids) : kids[i].t = "int" /\ kids[i].n >= 0 /\ kids[i].n <= 255

\* x is the string of two uppercase hex digits per byte of kids, in order
IsHexOf(x, kids) ==
    /\ x.t = "str"
    /\ Len(x.s) = 2 * Len(kids)
    /\ \A i \in 1..Len(kids) :
           /\ HexDigitValue(x.s[2 * i - 1]) >= 0
           /\ HexDigitValue(x.s[2 * i]) >= 0
           /\ 16 * HexDigitValue(x.s[2 * i - 1]) + HexDigitValue(x.s[2 * i]) = kids[i].n

\* C11: the converter maps [] to "", and for every byte sequence b maps the
\* wrapped [b] and the flat non-empty b to the uppercase hex of b, two digits
\* per byte in order; [[7]] gives "07".
C11_BlobToHex ==
    hex_text # NoTree =>
        /\ (opt_blob = List(<<>>) => hex_text = Str(<<>>))
        /\ (/\ Len(opt_blob.kids) = 1
            /\ IsList(opt_blob.kids[1])
            /\ IsByteSeq(opt_blob.kids[1].kids))
           => IsHexOf(hex_text, opt_blob.kids[1].kids)
        /\ (opt_blob.kids # <<>> /\ IsByteSeq(opt_blob.kids))
           => IsHexOf(hex_text, opt_blob.kids)
        /\ (opt_blob = List(<<List(<<Num(7)>>)>>) => hex_text = Str(<<"0", "7">>))

\* [[96, 252, 6, 143]] converted to "60FC068F"
C11_Witness ==
    /\ opt_blob = List(<<List(<<Num(96), Num(252), Num(6), Num(143)>>)>>)
    /\ hex_text = Str(<<"6", "0", "F", "C", "0", "6", "8", "F">>)

\* {"status": "error", ...}: the structured error
IsErrorResult(x) ==
    IsMap(x) /\ KeyStatus \in Keys(x) /\ Get(x, KeyStatus) = Str(TextError)

\* the three shapes the converter is to turn into hex: [], [b] and b for a
\* sequence b of bytes
WellShaped(v) ==
    /\ IsList(v)
    /\ \/ v.kids = <<>>
       \/ Len(v.kids) = 1 /\ IsList(v.kids[1]) /\ IsByteSeq(v.kids[1].kids)
       \/ IsByteSeq(v.kids)

\* C12 as stated: a value of any other shape under a subaccount key becomes
\* the empty string and the dispatch returns the normalized tree, not an error.
C12_Original ==
    Normalized =>
        \A q \in PathsOf(collapsed) :
            LET x == Sub(collapsed, q)
            IN  IsMap(x) =>
                    \A i \in 1..Len(x.kids) :
                        (Key(x.kids[i]) \in SUBACCOUNT_KEYS /\ ~WellShaped(Val(x.kids[i])))
                        => /\ ~IsErrorResult(result)
                           /\ Sub(result, Append(q, i)) = Str(<<>>)

\* a string of uppercase hex digits, possibly empty
IsHexString(v) ==
    v.t = "str" /\ \A i \in 1..Len(v.s) : HexDigitValue(v.s[i]) >= 0

\* y is x with every value under a subaccount key, at any depth, replaced
\* by a string of uppercase hex digits, and nothing else changed
RECURSIVE HexedFrom(_, _)
HexedFrom(y, x) ==
    IF IsMap(x)
    THEN /\ IsMap(y)
         /\ Len(y.kids) = Len(x.kids)
         /\ \A i \in 1..Len(x.kids) :
                /\ Key(y.kids[i]) = Key(x.kids[i])
                /\ IF Key(x.kids[i]) \in SUBACCOUNT_KEYS
                   THEN IsHexString(Val(y.kids[i]))
                   ELSE HexedFrom(Val(y.kids[i]), Val(x.kids[i]))
    ELSE IF IsList(x)
    THEN /\ IsList(y)
         /\ Len(y.kids) = Len(x.kids)
         /\ \A i \in 1..Len(x.kids) : HexedFrom(y.kids[i], x.kids[i])
    ELSE y = x

\* C13 as stated: whatever tree the Blob-to-Hex Normalizer is run on, in its
\* outcome every value under a subaccount key, at any depth, is a string of
\* uppercase hex digits and everything else is unchanged.
C13_Original ==
    Normalized => HexedFrom(TransformLoginResult(collapsed), collapsed)

-----------------------------------------------------------------------------
(* Claims on call_method *)

\* C14 as stated: in a dispatch that reaches normalization, from raw bytes
\* or from a structured reply, the value returned is the reply tree taken
\* through the Rehydrator, the Unit-Variant Collapser, the Blob-to-Hex
\* Normalizer and the Token-to-Text Normalizer, in this order.
C14_Original ==
    Normalized =>
        /\ hydrated = Rehydrate(Table, reply.tree)
        /\ collapsed = Unwrap(hydrated)
        /\ result = ConvertPrincipals(PrincipalLib, TransformLoginResult(collapsed))

\* the dispatch has a return-type hint, from the caller or from the interface
HasHint ==
    \/ call.return_type # <<>>
    \/ ExtractReturnType(actor.candid_text, call.method) # <<>>

\* C15 as stated: raw bytes are decoded with the return-type hint, else with
\* the two-armed probe, and when no decode succeeds the call returns the raw
\* bytes in the raw-bytes outcome.
C15_Original ==
    (pc = "returned" /\ reply.kind = "bytes") =>
        IF (HasHint /\ reply.typed) \/ reply.probe
        THEN Normalized /\ hydrated = Rehydrate(Table, reply.tree)
        ELSE result = RawBytesResult(Bytes(<<"raw">>))

\* the dispatch decoded raw bytes with the return-type hint and decode() raised
TypedDecodeFailed == reply.kind = "bytes" /\ HasHint /\ ~reply.typed
\* the dispatch had no hint and decode() with the probe type raised
ProbeDecodeFailed == reply.kind = "bytes" /\ ~HasHint /\ ~reply.probe
\* the stages ran and the blob stage raised
StageRaised == hydrated # NoTree /\ IsRaised(TransformLoginResult(collapsed))

\* the structured error carrying the message msg
IsErrorWith(x, msg) ==
    /\ IsErrorResult(x)
    /\ Keys(x) = {KeyStatus, KeyMessage}
    /\ Get(x, KeyMessage) = Str(MsgPrefix \o msg)

\* C16, amended: call_method never raises to its caller; an error of argument
\* encoding, of the transport, of the decode with the return-type hint or of a
\* normalization stage is returned as {"status": "error", "message": ...}
\* with the error's message after "fallback decode failed: "; an error of
\* the probe decode is returned as the raw-bytes outcome.
C16_ErrorsReturned ==
    pc = "returned" =>
        /\ ~IsRaised(result)
        /\ reply.kind = "raise" => IsErrorWith(result, reply.tree.s)
        /\ TypedDecodeFailed => IsErrorWith(result, <<"IDL error">>)
        /\ StageRaised => IsErrorWith(result, TransformLoginResult(collapsed).s)
        /\ ProbeDecodeFailed => result = RawBytesResult(Bytes(<<"raw">>))

\* a blob stage that raised on [-1] under a subaccount key, returned as the
\* structured error
C16_Witness ==
    /\ pc = "returned"
    /\ StageRaised
    /\ reply.kind = "tree"
    /\ IsErrorResult(result)

\* C16 as stated: every error of encoding, the transport, the decoder or a
\* stage is returned as a structured error result.
C16_Original ==
    (pc = "returned"
        /\ (reply.kind = "raise" \/ TypedDecodeFailed \/ ProbeDecodeFailed
                \/ StageRaised))
    => IsErrorResult(result)

\* the shape of the structured error: {"status": "error", "message": text}
HasErrorShape(x) ==
    /\ IsErrorResult(x)
    /\ Keys(x) = {KeyStatus, KeyMessage}
    /\ Get(x, KeyMessage).t = "str"

\* the shape of the raw-bytes outcome: {"status": "raw-bytes", "bytes": bytes}
HasRawBytesShape(x) ==
    /\ IsMap(x)
    /\ Keys(x) = {KeyStatus, KeyBytes}
    /\ Get(x, KeyStatus) = Str(TextRawBytes)
    /\ Get(x, KeyBytes).t = "bytes"

\* C17 as stated: a normalized value produced from a successful reply (the
\* four stages ran and none raised) never has the shape of the structured
\* error nor of the raw-bytes outcome.
C17_Original ==
    (Normalized /\ ~StageRaised) =>
        ~HasErrorShape(result) /\ ~HasRawBytesShape(result)

-----------------------------------------------------------------------------
(* Claims on the call mode *)

\* the interface of the actor is the service of the declarations ds, and the
\* dispatch called the method of its i-th declaration and reached the transport
CalledDeclared(ds, i) ==
    /\ pc = "returned"
    /\ actor.candid_text = ServiceText(ds)
    /\ call.method = ds[i].name
    /\ sent # <<>>

\* C18 as stated: a declared method goes over the query transport exactly
\* when its declaration ends with query, and over the update transport
\* otherwise.
C18_Original ==
    \A ds \in ServiceDecls, i \in 1..2 :
        CalledDeclared(ds, i) =>
            sent = <<IF ds[i].query THEN "query" ELSE "update">>

-----------------------------------------------------------------------------
(* Claims on the transport *)

\* C19: a dispatch calls the transport at most once, and when encoding or the
\* transport raised, or the call was cancelled, no normalization stage ran:
\* the stages ran only on the reply of exactly one transport call.
C19_OneTransportCall ==
    /\ Len(sent) <= 1
    /\ (pc = "returned" /\ reply.kind = "raise") =>
           /\ hydrated = NoTree
           /\ collapsed = NoTree
           /\ IsErrorWith(result, reply.tree.s)
    /\ pc = "cancelled" =>
           sent = <<>> /\ hydrated = NoTree /\ collapsed = NoTree /\ result = NoTree
    /\ hydrated # NoTree => Len(sent) = 1 /\ reply.kind \in {"bytes", "tree"}

\* a query of login whose transport call raised: one call, no stage
C19_Witness ==
    /\ pc = "returned"
    /\ reply.kind = "raise"
    /\ reply.tree.s = TransportError
    /\ sent = <<"query">>
    /\ hydrated = NoTree

-----------------------------------------------------------------------------
(* Claims on the table after construction *)

-----------------------------------------------------------------------------
(* Claims on construction *)

\* C21: construction with a missing, unreadable or empty interface text
\* raises and leaves no actor; every actor that exists has a non-empty
\* interface text and a hash table built from that text.
C21_NoActorWithoutInterface ==
    /\ pc \in {"new", "failed"} => actor = NoActor
    /\ pc = "failed" => Flatten(did_text) = <<>>
    /\ Flatten(did_text) = <<>> => ~actor.built
    /\ actor.built =>
           /\ actor.candid_text # <<>>
           /\ actor.candid_text = Flatten(did_text)
           /\ actor.hash_to_name \in FieldHashTables(HarvestNames(actor.candid_text))

\* the construction failed on the empty interface text, and there is no actor
C21_Witness ==
    /\ pc = "failed"
    /\ Flatten(did_text) = <<>>
    /\ actor = NoActor

-----------------------------------------------------------------------------
(* Claims on aliasing *)

\* some mapping or sequence of x is an object of the reply
SharesWithReply(x) ==
    \E q \in PathsOf(x) :
        (IsMap(Sub(x, q)) \/ IsList(Sub(x, q))) /\ Sub(x, q).n = 1

\* some mapping or sequence of x is not the same after the in-place stages
MutatedInPlace(x) ==
    \E q \in PathsOf(x) :
        /\ IsMap(Sub(x, q)) \/ IsList(Sub(x, q))
        /\ Sub(collapsed, q) # Sub(x, q)

\* C22: the tree the in-place stages work on (the one the rehydrator built,
\* then its deep copy) holds no mapping or sequence of the reply, so the
\* reply is after the call what it was before, and the result shares no
\* mapping or sequence with it.
C22_ReplyNotAliased ==
    Normalized =>
        /\ SharesWithReply(Handed(reply.tree)) =
               (IsMap(reply.tree) \/ IsList(reply.tree))
        /\ ~SharesWithReply(hydrated)
        /\ ~SharesWithReply(collapsed)
        /\ ~SharesWithReply(result)

\* a reply with a mapping under a plain key whose unit alternative was
\* collapsed in place in the rehydrated tree
C22_Witness ==
    /\ Normalized
    /\ IsMap(reply.tree)
    /\ NameUnit \in Keys(reply.tree)
    /\ IsMap(Get(reply.tree, NameUnit))
    /\ MutatedInPlace(hydrated)
    /\ ~IsErrorResult(result)

-----------------------------------------------------------------------------
(* Claims on the ConfigManager *)

\* the options the file holds have a network or a log level that is not valid
InvalidOptions ==
    /\ options.kind = "dict"
    /\ \/ AddonConfig(options).network \notin VALID_NETWORKS
       \/ AddonConfig(options).log_level \notin VALID_LOG_LEVELS

\* C23 as stated: load_config (called directly or by get_config) on options
\* with a network or a log level that is not valid raises ValueError, and no
\* such configuration is cached or returned.
C23_Original ==
    /\ (InvalidOptions /\ config_out # NoLoad /\ config_out.config # cached_config)
           => config_out.raised = "ValueError"
    /\ cached_config.set => ValidateConfig(cached_config) = "ok"
    /\ config_out.config.set => ValidateConfig(config_out.config) = "ok"

-----------------------------------------------------------------------------
(* Claims on the comment stripper *)

\* the text from index i on without its comments, read from left to right:
\* "//" opens a comment that ends before the next newline, "/*" one that ends
\* with the next "*/" (an unclosed "/*" is no comment), and whichever opens
\* first hides the other
RECURSIVE Uncommented(_, _)
Uncommented(src, i) ==
    IF i >= Len(src) THEN <<>>
    ELSE IF StartsWithAt(src, <<"/", "/">>, i)
    THEN LET e == Find(src, <<"\n">>, i)
         IN  IF e < 0 THEN <<>> ELSE Uncommented(src, e)
    ELSE IF StartsWithAt(src, <<"/", "*">>, i) /\ Find(src, <<"*", "/">>, i + 2) >= 0
    THEN Uncommented(src, Find(src, <<"*", "/">>, i + 2) + 2)
    ELSE <<At(src, i)>> \o Uncommented(src, i + 1)

\* C24 as stated: the stripper returns the text without its line and block
\* comments, every other character kept, also when a block comment holds
\* "//" or a line comment holds "/*" or "*/"; so the names harvested are
\* those of the text without its comments.
C24_Original ==
    built =>
        /\ StripCandidComments(Flatten(did_text)) = Uncommented(Flatten(did_text), 0)
        /\ names = HarvestNames(Uncommented(Flatten(did_text), 0))

-----------------------------------------------------------------------------
(* Claims on the balanced-block extractor *)

\* the braces of text from index i on never close more than depth d has open
\* and leave nothing open
RECURSIVE BalancedFrom(_, _, _)
BalancedFrom(text, i, d) ==
    IF i >= Len(text) THEN d = 0
    ELSE IF At(text, i) = "{" THEN BalancedFrom(text, i + 1, d + 1)
    ELSE IF At(text, i) = "}" THEN d > 0 /\ BalancedFrom(text, i + 1, d - 1)
    ELSE BalancedFrom(text, i + 1, d)

\* the strings of blocks lie in src from index from on, one after the other
\* without overlap: each is brace-balanced and stands between a "{" that
\* follows an occurrence of kw after optional whitespace and a "}"
RECURSIVE Located(_, _, _, _)
Located(src, kw, blocks, from) ==
    \/ blocks = <<>>
    \/ \E j \in {p \in from..(Len(src) - 1) : StartsWithAt(src, kw, p)} :
           LET k == SkipSpace(src, j + Len(kw))
               c == k + 1 + Len(Head(blocks))
           IN  /\ k < Len(src) /\ At(src, k) = "{"
               /\ c < Len(src) /\ At(src, c) = "}"
               /\ Slice(src, k + 1, c) = Head(blocks)
               /\ BalancedFrom(Head(blocks), 0, 0)
               /\ Located(src, kw, Tail(blocks), c + 1)

\* the texts the extractor is checked on: the interface texts of SpecBuild,
\* comment marks included
Sources == {Flatten(did_text)}

\* C25: for the keywords record and variant, every yielded string is the
\* brace-balanced text between the "{" after an occurrence of the keyword and
\* its balancing "}", and the yielded blocks follow one another in the source
\* without overlap.
C25_BlocksAreBalancedSpans ==
    built =>
        \A src \in Sources, kw \in {KwRecord, KwVariant} :
            Located(src, kw, IterBalancedBlocks(src, kw), 0)

\* a record block that holds another record block is yielded once, whole
C25_Witness ==
    /\ built
    /\ Len(IterBalancedBlocks(Flatten(did_text), KwRecord)) = 1
    /\ Contains(IterBalancedBlocks(Flatten(did_text), KwRecord)[1],
                <<"r","e","c","o","r","d"," ","{">>)
    /\ Contains(IterBalancedBlocks(Flatten(did_text), KwRecord)[1], <<"}">>)

\* from index i on, with d braces open, text holds no "}" that closes the
\* block the scan is in
RECURSIVE NeverClosedFrom(_, _, _)
NeverClosedFrom(text, i, d) ==
    IF i >= Len(text) THEN TRUE
    ELSE IF At(text, i) = "{" THEN NeverClosedFrom(text, i + 1, d + 1)
    ELSE IF At(text, i) = "}" THEN d > 0 /\ NeverClosedFrom(text, i + 1, d - 1)
    ELSE NeverClosedFrom(text, i + 1, d)

\* the occurrences of kw in src that open a block which is never closed
Unclosed(src, kw) ==
    {j \in 0..(Len(src) - 1) :
        /\ StartsWithAt(src, kw, j)
        /\ LET k == SkipSpace(src, j + Len(kw))
           IN  /\ k < Len(src) /\ At(src, k) = "{"
               /\ NeverClosedFrom(src, k + 1, 0)}

\* C26: on every text, with unbalanced braces too, the extractor ends with a
\* finite sequence of strings and no error (each turn of its loops starts
\* further right than the one before), and when a keyword-opened block is
\* never closed it yields exactly the blocks of the text before that block.
C26_EndsAtUnclosedBlock ==
    built =>
        \A src \in Sources, kw \in {KwRecord, KwVariant} :
            LET open == Unclosed(src, kw)
            IN  /\ Len(IterBalancedBlocks(src, kw)) <= Len(src)
                /\ \A i \in {0} \cup {p + 1 : p \in {q \in 0..(Len(src) - 2) :
                                       At(src, q) = "}" \/ StartsWithAt(src, kw, q)}} :
                       Find(src, kw, i) \in {-1} \cup i..(Len(src) - 1)
                /\ \A j \in {p \in 0..(Len(src) - 1) : StartsWithAt(src, kw, p)} :
                       LET k == SkipSpace(src, j + Len(kw))
                       IN  /\ k > j
                           /\ ScanClose(src, k + 1, 0) \in {-1} \cup (k + 1)..(Len(src) - 1)
                /\ open # {} =>
                       IterBalancedBlocks(src, kw) =
                           IterBalancedBlocks(Slice(src, 0, Least(open)), kw)

\* a complete record block, then a record block that is never closed although
\* it holds a complete one: the first block alone is yielded
C26_Witness ==
    /\ built
    /\ Unclosed(Flatten(did_text), KwRecord) # {}
    /\ Least(Unclosed(Flatten(did_text), KwRecord)) > 0
    /\ Len(IterBalancedBlocks(Flatten(did_text), KwRecord)) = 1
    /\ Len(IterBalancedBlocks(Slice(Flatten(did_text), 1, Len(Flatten(did_text))), KwRecord)) = 1

-----------------------------------------------------------------------------
(* Claims on the reserved type keywords *)

\* C27: the Name Set holds none of the reserved type keywords, whether the
\* keyword stands in a record block or in a variant block.
C27_Original ==
    built => names \cap reserved = {}

-----------------------------------------------------------------------------
(* Claims on the entries of rehydrated mappings *)

\* C28: rehydration keeps the number of entries of every mapping: distinct
\* keys of a mapping become distinct keys, no entry overwrites another.
C28_Original ==
    Normalized =>
        \A q \in PathsOf(reply.tree) :
            LET x == Sub(reply.tree, q)
                y == IF q = <<>> THEN hydrated ELSE Rehydrate(Table, x)
            IN  IsMap(x) =>
                    /\ Len(y.kids) = Len(x.kids)
                    /\ Cardinality({NewKey(Table, k) : k \in Keys(x)}) = Cardinality(Keys(x))

-----------------------------------------------------------------------------
(* Claims on the IdentityManager *)

\* C29: after any sequence of add_canister, delete_canister,
\* call_canister_method and regenerate_identity the actor cache holds actors
\* only for ids that a registered name maps to.
C29_Original ==
    actors \subseteq IdsOf(canisters)

\* C30: when building the actor fails inside add_canister, the call raises
\* that error and the registry, the actor cache and the registry file are
\* what they were before the call.
C30_FailedAddChangesNothing ==
    [][(/\ manager_out' # manager_out
        /\ manager_out'.op = "add_canister"
        /\ manager_out'.id # <<>>
        /\ ~loadable)
       => /\ manager_out'.raised = "RuntimeError"
          /\ UNCHANGED <<canisters, actors, canisters_file>>]_vars

\* a registry with a name, a cached actor and a file, and an add_canister of
\* another id under that name that failed
C30_Witness ==
    /\ manager_out = [op |-> "add_canister", id |-> <<"y">>, name |-> <<"a">>,
                      raised |-> "RuntimeError"]
    /\ canisters = {<<<<"a">>, <<"x">>>>}
    /\ actors = {<<"x">>}
    /\ canisters_file = canisters

====
